---- MODULE Spec2Model ----
(***************************************************************************)
(* Model of the Garmin Connect sync job: main.py drives one sync run       *)
(* (credentials check, connect, create_tables, login, get_latest_run,      *)
(* dedup read, insert_run, insert_gps_points, close) against a PostgreSQL   *)
(* store shared by every run and a remote account shared by every run.     *)
(* Two runs (Procs) execute concurrently; each call of main.py into        *)
(* DatabaseManager / GarminConnectSync is one atomic step.                 *)
(* A second specification, SpecCalls, applies single methods of            *)
(* GarminConnectSync (get_activities_since, parse_gpx_simple,               *)
(* calculate_pace, format_activity_data) to enumerated arguments.          *)
(***************************************************************************)
EXTENDS Integers, Sequences, FiniteSets, TLC

\* ------------------------------------------------------------------ bounds
MaxListing == 2
MaxTrack == 2
\* longest listing handed to get_activities_since, largest days_back
MaxBatch == 3
\* most track points of a document handed to parse_gpx_simple
MaxGpx == 3
\* distances up to MaxHalfKm * 500 m, durations up to MaxQuarterKs * 250 s
MaxHalfKm == 10
MaxQuarterKs == 6
MaxDaysBack == 7

\* two sync runs (two invocations of main.py)
Procs == {1, 2}

\* ------------------------------------------------------- Python values
\* Python None; integers travel wrapped so that None and a number compare.
None == [t |-> "none"]
PyInt(n) == [t |-> "int", v |-> n]

\* dict.get(key, default)
Get(d, k, default) == IF k \in DOMAIN d THEN d[k] ELSE default

\* Python truthiness of None / an int / a non-empty dict
Truthy(x) == x # None /\ x # PyInt(0)

\* str(x) of an int or of None
Str(x) == IF x = None THEN "None" ELSE ToString(x.v)

\* ------------------------------------------------------- remote account
\* Raw summary records as returned by client.get_activities; a key that the
\* service omits is absent from the record's DOMAIN.
Summary(type_key, id) ==
  [activityType |-> [typeKey |-> type_key], activityId |-> PyInt(id),
   distance |-> PyInt(5000), duration |-> PyInt(1500)]
Summaries ==
  { Summary("running", 1),
    Summary("running", 2),
    Summary("cycling", 3),
    \* a running activity without activityId
    [activityType |-> [typeKey |-> "running"],
     distance |-> PyInt(5000), duration |-> PyInt(1500)] }

\* ------------------------------------------------------- track documents
\* A GPX document: either unparseable markup, or the track-point elements in
\* document order.  An attribute or child the document omits is absent from
\* the element's DOMAIN; a present one is text that float() accepts
\* (Num) or rejects (BadText), or the empty text.
Num(n) == [t |-> "num", v |-> n]
BadText == [t |-> "bad"]
EmptyText == [t |-> "empty"]
TrkPts ==
  { [lat |-> Num(2), lon |-> Num(2), ele |-> Num(7)],
    [lat |-> Num(3)] }

RECURSIVE SeqsUpTo(_, _)
SeqsUpTo(S, n) ==
  IF n = 0 THEN {<<>>}
  ELSE LET shorter == SeqsUpTo(S, n - 1)
       IN shorter \cup {Append(q, x) : q \in {r \in shorter : Len(r) = n - 1}, x \in S}

TrackDocs ==
  {[wellformed |-> FALSE, trkpts |-> <<>>]}
    \cup {[wellformed |-> TRUE, trkpts |-> q] : q \in SeqsUpTo(TrkPts, MaxTrack)}

\* float(text): the text is known to be non-empty here
FloatRaises(text) == text = BadText
Float(text) == text.v

\* truthiness of an attribute / element text (None when absent)
TextTruthy(text) == text # EmptyText /\ text # None

\* parse_gpx_simple: the loop over root.iter(); `acc` is gps_points so far.
\* A float() that raises leaves the loop through the outer except (a
\* warning is logged), and the function returns what it had appended until
\* then.
RECURSIVE ParseTrkpts(_, _)
ParseTrkpts(trkpts, acc) ==
  IF trkpts = <<>> THEN [gps_points |-> acc, raised |-> FALSE]
  ELSE
    LET trkpt == Head(trkpts)
        lat == Get(trkpt, "lat", None)
        lon == Get(trkpt, "lon", None)
        ele == Get(trkpt, "ele", None)
    IN IF ~(TextTruthy(lat) /\ TextTruthy(lon))
       THEN ParseTrkpts(Tail(trkpts), acc)
       ELSE IF FloatRaises(lat) \/ FloatRaises(lon)
       THEN [gps_points |-> acc, raised |-> TRUE]
       ELSE IF TextTruthy(ele) /\ FloatRaises(ele)
       THEN [gps_points |-> acc, raised |-> TRUE]
       ELSE
         LET point == [latitude |-> Float(lat),
                       longitude |-> Float(lon),
                       elevation_meters |->
                         IF TextTruthy(ele) THEN PyInt(Float(ele)) ELSE None,
                       speed_mps |-> None]
         IN ParseTrkpts(Tail(trkpts), Append(acc, point))

\* ET.fromstring raises on unparseable markup: nothing was appended yet
ParseGpx(gpx_data) ==
  IF gpx_data.wellformed THEN ParseTrkpts(gpx_data.trkpts, <<>>)
  ELSE [gps_points |-> <<>>, raised |-> TRUE]

parse_gpx_simple(gpx_data) == ParseGpx(gpx_data).gps_points

\* parse_gpx_simple without its try / except
parse_gpx_simple_call_uncaught(gpx_data) ==
  [returns |-> parse_gpx_simple(gpx_data),
   raises |-> ParseGpx(gpx_data).raised,
   warnings |-> <<>>]

\* a call of parse_gpx_simple as its caller sees it: except Exception catches
\* whatever the parsing raised and logs a warning, return gps_points follows
parse_gpx_simple_call(gpx_data) ==
  [returns |-> parse_gpx_simple(gpx_data),
   raises |-> FALSE,
   warnings |-> IF ParseGpx(gpx_data).raised THEN <<"gpx_parse_warning">> ELSE <<>>]

\* Documents handed to parse_gpx_simple alone: track points with and without
\* elevation, lacking a coordinate attribute, with an elevation text that is
\* no number, with an empty elevation element.
GpxTrkPts ==
  { [lat |-> Num(1), lon |-> Num(1), ele |-> Num(7)],
    [lat |-> Num(2), lon |-> Num(2)],
    [lat |-> Num(3)],
    [lon |-> Num(4)],
    [lat |-> Num(5), lon |-> Num(5), ele |-> BadText],
    [lat |-> Num(6), lon |-> Num(6), ele |-> EmptyText] }
GpxDocs ==
  {[wellformed |-> FALSE, trkpts |-> <<>>]}
    \cup {[wellformed |-> TRUE, trkpts |-> q] : q \in SeqsUpTo(GpxTrkPts, MaxGpx)}

\* get_gps_data: `download` is the document, or Raise when
\* client.download_activity raises
Raise == [t |-> "raise"]
get_gps_data(download) ==
  IF download = Raise THEN <<>> ELSE parse_gpx_simple(download)

\* the warnings get_gps_data and parse_gpx_simple log
get_gps_data_log(download) ==
  IF download = Raise THEN <<"gps_warning">>
  ELSE IF ParseGpx(download).raised THEN <<"gpx_parse_warning">>
  ELSE <<>>

\* ------------------------------------------------------- normalization
\* round-half-even of num / den, both positive
RoundDiv(num, den) ==
  LET q == num \div den
      r == num % den
  IN IF 2 * r > den \/ (2 * r = den /\ q % 2 = 1) THEN q + 1 ELSE q

\* calculate_pace answering 0.0 where it has no pace
calculate_pace_zero(distance_meters, duration_seconds) ==
  IF Truthy(distance_meters) /\ Truthy(duration_seconds) /\ distance_meters.v > 0
  THEN [t |-> "float", hundredths |-> RoundDiv(duration_seconds.v * 100000, distance_meters.v)]
  ELSE [t |-> "float", hundredths |-> 0]

\* calculate_pace: seconds per km rounded to 2 decimals, held in hundredths
calculate_pace(distance_meters, duration_seconds) ==
  IF Truthy(distance_meters) /\ Truthy(duration_seconds) /\ distance_meters.v > 0
  THEN [t |-> "float", hundredths |-> RoundDiv(duration_seconds.v * 100000, distance_meters.v)]
  ELSE None

\* format_activity_data(detailed_activity, summary_activity): the dict built
\* from the summary; `download` is what client.download_activity does for
\* this activity.
FormattedData(summary_activity, download) ==
  LET duration_seconds == Get(summary_activity, "duration", PyInt(0))
      distance_meters == Get(summary_activity, "distance", PyInt(0))
  IN [activity_id |-> Str(Get(summary_activity, "activityId", None)),
      distance_meters |-> distance_meters,
      duration_seconds |-> duration_seconds,
      avg_pace_seconds_per_km |-> calculate_pace(distance_meters, duration_seconds),
      calories |-> Get(summary_activity, "calories", PyInt(0)),
      avg_heart_rate |-> Get(summary_activity, "averageHR", None),
      max_heart_rate |-> Get(summary_activity, "maxHR", None),
      gps_points |-> get_gps_data(download)]

\* the closing logging line divides distance_meters and duration_seconds
FormatRaises(summary_activity) ==
  \/ Get(summary_activity, "distance", PyInt(0)) = None
  \/ Get(summary_activity, "duration", PyInt(0)) = None

\* format_activity_data letting a failed track download fail the activity
format_activity_data_track_fatal(summary_activity, download) ==
  IF FormatRaises(summary_activity) \/ download = Raise THEN None
  ELSE FormattedData(summary_activity, download)

\* the except of format_activity_data returns None
format_activity_data(summary_activity, download) ==
  IF FormatRaises(summary_activity) THEN None
  ELSE FormattedData(summary_activity, download)

\* a format_activity_data that is handed the track, fetched before it starts
format_activity_data_calls_track_first == <<"download_activity", "format_activity_data">>

\* format_activity_data is entered, builds the dict, and then calls
\* get_gps_data, which calls client.download_activity
format_activity_data_calls == <<"format_activity_data", "download_activity">>

\* get_latest_run: the filter for running activities
IsRunning(activity) ==
  LET activity_type == Get(activity, "activityType", None)
  IN /\ activity_type # None
     /\ "typeKey" \in DOMAIN activity_type
     /\ activity_type.typeKey = "running"

\* get_latest_run without its type filter
running_activities_unfiltered(acts) == acts

running_activities(acts) == SelectSeq(acts, IsRunning)

\* The accounts considered: every listing of at most MaxListing activities,
\* most recent first, each activity listed once.
Accounts ==
  {q \in SeqsUpTo(Summaries, MaxListing) : \A i, j \in 1..Len(q) : i # j => q[i] # q[j]}

\* client.get_activities(0, 100): at most ListLimit records, source order
ListLimit == 100
Min(a, b) == IF a < b THEN a ELSE b
get_activities(account, start, limit) ==
  SubSeq(account, start + 1, Min(Len(account), start + limit))

\* ------------------------------------------------------- batch listing
\* startTimeLocal as the service writes it: an ISO text, with or without a
\* trailing 'Z', of an instant `day` days from now (negative: in the past).
IsoTime(day, z) == [t |-> "isotime", day |-> day, z |-> z]

\* start_time_str.replace('Z', '')
StripZ(text) == IF text.t = "isotime" THEN [text EXCEPT !.z = FALSE] ELSE text

\* datetime.fromisoformat(text): a datetime, held as days from now; raises
\* on a text that is no ISO date
FromIsoRaises(text) == text.t # "isotime"
FromIso(text) == text.day

\* datetime.now() - timedelta(days=days_back), in days from now
CutoffDate(days_back) == 0 - days_back

\* a window that takes in the activity started exactly at the cutoff
InWindow_inclusive(start_time, cutoff_date) == start_time >= cutoff_date

\* if start_time > cutoff_date
InWindow(start_time, cutoff_date) == start_time > cutoff_date

\* a loop that keeps the running activities only
Appends_running_only(activity, cutoff_date) ==
  /\ IsRunning(activity)
  /\ TextTruthy(Get(activity, "startTimeLocal", EmptyText))
  /\ InWindow(FromIso(StripZ(activity.startTimeLocal)), cutoff_date)

\* the loop appends the activity: it has a start time and that is in the window
Appends(activity, cutoff_date) ==
  /\ TextTruthy(Get(activity, "startTimeLocal", EmptyText))
  /\ InWindow(FromIso(StripZ(activity.startTimeLocal)), cutoff_date)

\* a start time the loop cannot parse ends get_activities_since in its except
SinceRaises(acts) ==
  \E i \in 1..Len(acts) :
    LET start_time_str == Get(acts[i], "startTimeLocal", EmptyText)
    IN TextTruthy(start_time_str) /\ FromIsoRaises(StripZ(start_time_str))

\* client.get_activities(0, days_back * 10)
ListPerDay == 10

\* get_activities_since(days_back): the result, the listing received and the
\* remote calls made
get_activities_since(is_logged_in, account, list_ok, days_back) ==
  IF ~is_logged_in
  THEN [result |-> <<>>, activities |-> <<>>, calls |-> <<>>]
  ELSE IF ~list_ok
  THEN [result |-> <<>>, activities |-> <<>>, calls |-> <<"get_activities">>]
  ELSE
    LET acts == get_activities(account, 0, days_back * ListPerDay)
        cutoff_date == CutoffDate(days_back)
    IN [result |-> IF SinceRaises(acts) THEN <<>>
                   ELSE SelectSeq(acts, LAMBDA activity : Appends(activity, cutoff_date)),
        activities |-> acts,
        calls |-> <<"get_activities">>]

\* Listings handed to get_activities_since: activities of both types at
\* several ages, one without a start time, one with an empty one, one
\* written with a trailing 'Z'.
Started(type_key, id, day, z) ==
  [activityType |-> [typeKey |-> type_key], activityId |-> PyInt(id),
   startTimeLocal |-> IsoTime(day, z)]
BatchSummaries ==
  { Started("running", 1, 0 - 1, FALSE),
    Started("running", 2, 0 - 10, FALSE),
    Started("running", 3, 0 - 40, FALSE),
    Started("running", 4, 0 - MaxDaysBack, FALSE),
    Started("cycling", 5, 0 - 1, TRUE),
    [activityType |-> [typeKey |-> "running"], activityId |-> PyInt(6)],
    [activityType |-> [typeKey |-> "running"], activityId |-> PyInt(7),
     startTimeLocal |-> EmptyText] }
BatchAccounts == SeqsUpTo(BatchSummaries, MaxBatch)
DaysBack == 0..MaxDaysBack

VARIABLES
  remote,        \* the account's activities, most recent first
  credentials,   \* config.py, read by every run: is GARMIN_EMAIL / GARMIN_PASSWORD set
  invocation,    \* a call of one GarminConnectSync method by a caller other than main()
  tables,        \* TRUE once runs / gps_points exist in the store
  runs,          \* committed rows of table runs: [id, activity_id]
  gps_tbl,       \* committed rows of table gps_points, in insertion order
  runs_id_seq,   \* last value handed out by the SERIAL of runs.id
  pc,            \* position of each run in main()
  conn,          \* state of each run's connection
  tx,            \* transaction status of each run's connection
  logged_in,     \* GarminConnectSync.logged_in
  activities,    \* listing received by get_latest_run
  activity_data, \* result of get_latest_run, gps_points popped
  gps_points,    \* samples popped from activity_data
  existing_activity, \* result of get_activity_by_id
  run_id,        \* result of insert_run
  outcome,       \* the message main() ends with
  warnings,      \* what get_gps_data / parse_gpx_simple logged with logging.warning
  calls          \* calls made by the run, in order

dbvars == <<tables, runs, gps_tbl, runs_id_seq>>
locals == <<logged_in, activities, activity_data, gps_points, existing_activity, run_id>>
\* what no step of main() changes
env == <<remote, credentials, invocation>>
vars == <<remote, credentials, invocation, tables, runs, gps_tbl, runs_id_seq, pc, conn, tx, logged_in,
          activities, activity_data, gps_points, existing_activity, run_id,
          outcome, warnings, calls>>

\* no method is called from outside main()
NoInvocation == [method |-> "none", returned |-> FALSE]

\* before main() starts: nothing stored, nothing called
InitRuns ==
  /\ tables = FALSE
  /\ runs = <<>>
  /\ gps_tbl = <<>>
  /\ runs_id_seq = 0
  /\ pc = [p \in Procs |-> "start"]
  /\ conn = [p \in Procs |-> "none"]
  /\ tx = [p \in Procs |-> "idle"]
  /\ logged_in = [p \in Procs |-> FALSE]
  /\ activities = [p \in Procs |-> <<>>]
  /\ activity_data = [p \in Procs |-> None]
  /\ gps_points = [p \in Procs |-> <<>>]
  /\ existing_activity = [p \in Procs |-> None]
  /\ run_id = [p \in Procs |-> None]
  /\ outcome = [p \in Procs |-> "running"]
  /\ warnings = [p \in Procs |-> <<>>]
  /\ calls = [p \in Procs |-> <<>>]

Init ==
  /\ remote \in Accounts
  /\ credentials \in [email : BOOLEAN, password : BOOLEAN]
  /\ invocation = NoInvocation
  /\ InitRuns

\* ------------------------------------------------------- the store
\* What a statement sent by a DatabaseManager method meets: no fault, an
\* error raised by the server for this statement, or a lost connection.
Faults == {"none", "server", "conn"}

\* the runs table without its UNIQUE constraint
UniqueViolation_unconstrained(table, activity_id) == FALSE

\* runs.activity_id VARCHAR(50) UNIQUE
UniqueViolation(table, activity_id) ==
  \E i \in 1..Len(table) : table[i].activity_id = activity_id

\* gps_points.run_id INTEGER REFERENCES runs(id): a NULL passes
FkViolation(table, id) ==
  id # None /\ ~\E i \in 1..Len(table) : table[i].id = id.v

\* a rollback() that keeps what the transaction inserted
Rollback_keeps(table, pending) == table \o pending

\* connection.commit() / connection.rollback() of the rows the open
\* transaction has inserted
Commit(table, pending) == table \o pending
Rollback(table, pending) == table

\* SELECT id FROM runs WHERE activity_id = %s; fetchone()
SelectByActivityId(table, activity_id) ==
  LET hits == SelectSeq(table, LAMBDA r : r.activity_id = activity_id)
  IN IF hits = <<>> THEN None ELSE [t |-> "row", id |-> hits[1].id]

\* a statement can run: live connection, transaction not aborted, tables there
CanExecute(p) == conn[p] = "ok" /\ tx[p] # "inerror" /\ tables

\* ------------------------------------------------------- main(): branches
Goto(position, message) == [pc |-> position, outcome |-> message]

\* main() going on after a failed login
main_after_login_ignored(login_ok) == Goto("get_latest_run", "running")

\* if not garmin.login(): ... return
main_after_login(login_ok) ==
  IF ~login_ok THEN Goto("finally", "login_failed")
  ELSE Goto("get_latest_run", "running")

\* main() going from get_latest_run straight to the insert
main_after_get_latest_run_unchecked(data) ==
  IF ~Truthy(data) THEN Goto("finally", "no_activity")
  ELSE Goto("insert_run", "running")

\* if not activity_data: ... return
main_after_get_latest_run(data) ==
  IF ~Truthy(data) THEN Goto("finally", "no_activity")
  ELSE Goto("get_activity_by_id", "running")

\* main() ignoring the result of the dedup read
main_after_dedup_ignored(existing) == Goto("insert_run", "running")

\* if existing_activity: ... return
main_after_dedup(existing) ==
  IF Truthy(existing) THEN Goto("finally", "already_exists")
  ELSE Goto("insert_run", "running")

\* main() inserting the samples without looking at run_id
main_after_insert_run_unguarded(id, points) ==
  IF points # <<>> THEN Goto("insert_gps_points", "running")
  ELSE Goto("finally", "completed")

\* if run_id and gps_points: insert_gps_points ...; "Sync completed successfully"
main_after_insert_run(id, points) ==
  IF Truthy(id) /\ points # <<>> THEN Goto("insert_gps_points", "running")
  ELSE Goto("finally", "completed")

\* after insert_gps_points returns: "Sync completed successfully"
main_after_insert_gps_points == Goto("finally", "completed")

\* except Exception as e: "Sync failed"
main_except == Goto("finally", "sync_failed")

Jump(p, g) ==
  /\ pc' = [pc EXCEPT ![p] = g.pc]
  /\ outcome' = [outcome EXCEPT ![p] = g.outcome]

Called(p, names) == calls' = [calls EXCEPT ![p] = @ \o names]
Warned(p, messages) == warnings' = [warnings EXCEPT ![p] = @ \o messages]

\* main() going on whatever config.py holds
CredentialsConfigured_unchecked(email, password) == TRUE

\* main(): if not GARMIN_EMAIL or not GARMIN_PASSWORD: ... return
CredentialsConfigured(email, password) == email /\ password

Start(p) ==
  /\ pc[p] = "start"
  /\ IF CredentialsConfigured(credentials.email, credentials.password)
     THEN Jump(p, Goto("connect", "running"))
     ELSE Jump(p, Goto("done", "no_credentials"))
  /\ UNCHANGED <<env, dbvars, conn, tx, locals, warnings, calls>>

\* DatabaseManager.connect
Connect(p) ==
  /\ pc[p] = "connect"
  /\ Called(p, <<"connect">>)
  /\ \E ok \in BOOLEAN :
       IF ok
       THEN /\ conn' = [conn EXCEPT ![p] = "ok"]
            /\ Jump(p, Goto("create_tables", "running"))
       ELSE /\ Jump(p, Goto("done", "db_connect_failed"))
            /\ UNCHANGED conn
  /\ UNCHANGED <<env, dbvars, tx, locals, warnings>>

\* DatabaseManager.create_tables.  A lost connection makes rollback()
\* raise inside the except block; main() calls create_tables outside its
\* try, so the exception leaves main() without close().
CreateTables(p) ==
  /\ pc[p] = "create_tables"
  /\ Called(p, <<"create_tables">>)
  /\ \E fault \in Faults :
       CASE fault = "none" ->
              /\ tables' = TRUE
              /\ Jump(p, Goto("login", "running"))
              /\ UNCHANGED conn
         [] fault = "server" ->
              /\ Jump(p, Goto("login", "running"))
              /\ UNCHANGED <<tables, conn>>
         [] fault = "conn" ->
              /\ conn' = [conn EXCEPT ![p] = "broken"]
              /\ Jump(p, Goto("done", "unhandled_exception"))
              /\ UNCHANGED tables
  /\ UNCHANGED <<env, runs, gps_tbl, runs_id_seq, tx, locals, warnings>>

\* GarminConnectSync.login
Login(p) ==
  /\ pc[p] = "login"
  /\ Called(p, <<"login">>)
  /\ \E ok \in BOOLEAN :
       /\ logged_in' = [logged_in EXCEPT ![p] = ok]
       /\ Jump(p, main_after_login(ok))
  /\ UNCHANGED <<env, dbvars, conn, tx, activities, activity_data, gps_points,
                 existing_activity, run_id, warnings>>

\* GarminConnectSync.get_latest_run.  list_ok / detail_ok say whether
\* client.get_activities / client.get_activity return or raise, download is
\* what client.download_activity does.  The result, the listing received, the
\* remote calls made and the warnings logged.
Returned(result, acts, names, messages) ==
  [result |-> result, activities |-> acts, calls |-> names, warnings |-> messages]

get_latest_run(is_logged_in, account, list_ok, detail_ok, download) ==
  IF ~is_logged_in
  THEN Returned(None, <<>>, <<>>, <<>>)
  ELSE IF ~list_ok
  THEN Returned(None, <<>>, <<"get_activities">>, <<>>)
  ELSE
    LET acts == get_activities(account, 0, ListLimit)
        running == running_activities(acts)
    IN IF running = <<>>
       THEN Returned(None, acts, <<"get_activities">>, <<>>)
       ELSE
         LET latest_run == running[1]
         IN IF "activityId" \notin DOMAIN latest_run
            THEN Returned(None, acts, <<"get_activities">>, <<>>)
            ELSE IF ~detail_ok
            THEN Returned(None, acts, <<"get_activities", "get_activity">>, <<>>)
            ELSE Returned(format_activity_data(latest_run, download), acts,
                          <<"get_activities", "get_activity">> \o format_activity_data_calls,
                          get_gps_data_log(download))

\* What the service answers to the calls of one get_latest_run; a call that
\* raises ends the method, so the answers to the calls after it are not drawn.
RemoteAnswers ==
  {[list_ok |-> FALSE, detail_ok |-> FALSE, download |-> Raise],
   [list_ok |-> TRUE, detail_ok |-> FALSE, download |-> Raise]}
    \cup [list_ok : {TRUE}, detail_ok : {TRUE}, download : TrackDocs \cup {Raise}]

GetLatestRun(p) ==
  /\ pc[p] = "get_latest_run"
  /\ \E answer \in RemoteAnswers :
       LET r == get_latest_run(logged_in[p], remote, answer.list_ok, answer.detail_ok,
                               answer.download)
       IN /\ activities' = [activities EXCEPT ![p] = r.activities]
          /\ Called(p, r.calls)
          /\ Warned(p, r.warnings)
          /\ activity_data' = [activity_data EXCEPT ![p] = r.result]
          /\ Jump(p, main_after_get_latest_run(r.result))
  /\ UNCHANGED <<env, dbvars, conn, tx, logged_in, gps_points, existing_activity, run_id>>

\* a get_activity_by_id that answers a failed read like a row found
get_activity_by_id_except_found == [t |-> "row", id |-> 0]

\* except Exception as e: ... return None
get_activity_by_id_except == None

\* What the SELECT of get_activity_by_id meets: the faults of any statement,
\* or an error raised by the driver before the statement is sent.
ReadFaults == Faults \cup {"client"}

\* DatabaseManager.get_activity_by_id, then main()'s duplicate branch.  An
\* error is caught and answered with None; the method does not roll back, so
\* a server error leaves the transaction aborted.
GetActivityById(p) ==
  /\ pc[p] = "get_activity_by_id"
  /\ Called(p, <<"get_activity_by_id">>)
  /\ \E fault \in ReadFaults :
       LET executes == fault = "none" /\ CanExecute(p)
           result == IF executes
                     THEN SelectByActivityId(runs, activity_data[p].activity_id)
                     ELSE get_activity_by_id_except
       IN /\ existing_activity' = [existing_activity EXCEPT ![p] = result]
          /\ conn' = [conn EXCEPT ![p] = IF fault = "conn" THEN "broken" ELSE @]
          /\ tx' = [tx EXCEPT ![p] =
                      IF fault \in {"conn", "client"} THEN @
                      ELSE IF executes THEN "intrans"
                      ELSE "inerror"]
          /\ Jump(p, main_after_dedup(result))
  /\ UNCHANGED <<env, dbvars, logged_in, activities, activity_data, gps_points, run_id,
                 warnings>>

\* gps_points = activity_data.pop('gps_points', []); DatabaseManager.insert_run,
\* then main()'s branch on run_id and gps_points.  When the connection is
\* lost, rollback() raises inside the except block and main()'s except
\* catches it.
InsertRun(p) ==
  /\ pc[p] = "insert_run"
  /\ Called(p, <<"insert_run">>)
  /\ gps_points' = [gps_points EXCEPT ![p] = activity_data[p].gps_points]
  /\ activity_data' = [activity_data EXCEPT ![p] =
                         [k \in DOMAIN @ \ {"gps_points"} |-> @[k]]]
  /\ \E fault \in Faults :
       LET run_data == activity_data[p]
           points == run_data.gps_points
           executes == fault = "none" /\ CanExecute(p)
           id == runs_id_seq + 1
           pending == IF executes
                      THEN <<[id |-> id, activity_id |-> run_data.activity_id]>>
                      ELSE <<>>
           ok == executes /\ ~UniqueViolation(runs, run_data.activity_id)
           lost == fault = "conn" \/ conn[p] # "ok"
           returned == IF ok THEN PyInt(id) ELSE None
       IN /\ runs_id_seq' = IF executes THEN id ELSE runs_id_seq
          /\ runs' = IF ok THEN Commit(runs, pending) ELSE Rollback(runs, pending)
          /\ run_id' = [run_id EXCEPT ![p] = returned]
          /\ conn' = [conn EXCEPT ![p] = IF lost THEN "broken" ELSE @]
          /\ tx' = [tx EXCEPT ![p] = IF lost THEN @ ELSE "idle"]
          /\ IF ~ok /\ lost
             THEN Jump(p, main_except)
             ELSE Jump(p, main_after_insert_run(returned, points))
  /\ UNCHANGED <<env, tables, gps_tbl, logged_in, activities, existing_activity, warnings>>

\* DatabaseManager.insert_gps_points: `done` statements of the loop have been
\* executed when the fault (if any) strikes; done = Len(gps_points) with a
\* fault is a failing commit.
InsertGpsPoints(p) ==
  /\ pc[p] = "insert_gps_points"
  /\ Called(p, <<"insert_gps_points">>)
  /\ \E fault \in Faults, done \in 0..Len(gps_points[p]) :
       /\ fault = "none" /\ CanExecute(p) /\ ~FkViolation(runs, run_id[p])
            => done = Len(gps_points[p])
       /\ ~(CanExecute(p) /\ ~FkViolation(runs, run_id[p])) => done = 0
       /\ LET pending == [i \in 1..done |->
                            [run_id |-> run_id[p],
                             latitude |-> gps_points[p][i].latitude,
                             longitude |-> gps_points[p][i].longitude,
                             elevation_meters |-> gps_points[p][i].elevation_meters]]
              ok == fault = "none" /\ CanExecute(p) /\ ~FkViolation(runs, run_id[p])
              lost == fault = "conn" \/ conn[p] # "ok"
          IN /\ gps_tbl' = IF ok THEN Commit(gps_tbl, pending) ELSE Rollback(gps_tbl, pending)
             /\ conn' = [conn EXCEPT ![p] = IF lost THEN "broken" ELSE @]
             /\ tx' = [tx EXCEPT ![p] = IF lost THEN @ ELSE "idle"]
             /\ IF ~ok /\ lost
                THEN Jump(p, main_except)
                ELSE Jump(p, main_after_insert_gps_points)
  /\ UNCHANGED <<env, tables, runs, runs_id_seq, locals, warnings>>

\* finally: db.close()
Close(p) ==
  /\ pc[p] = "finally"
  /\ Called(p, <<"close">>)
  /\ conn' = [conn EXCEPT ![p] = "closed"]
  /\ tx' = [tx EXCEPT ![p] = "idle"]
  /\ pc' = [pc EXCEPT ![p] = "done"]
  /\ UNCHANGED <<env, dbvars, locals, outcome, warnings>>

Next ==
  \/ \E p \in Procs : Start(p)
  \/ \E p \in Procs : Connect(p)
  \/ \E p \in Procs : CreateTables(p)
  \/ \E p \in Procs : Login(p)
  \/ \E p \in Procs : GetLatestRun(p)
  \/ \E p \in Procs : GetActivityById(p)
  \/ \E p \in Procs : InsertRun(p)
  \/ \E p \in Procs : InsertGpsPoints(p)
  \/ \E p \in Procs : Close(p)

Spec == Init /\ [][Next]_vars

\* ------------------------------------------------------- methods called alone
\* A caller other than main() invokes one method of a GarminConnectSync
\* object once; no sync run is started.
Invoke(method, args) ==
  [method |-> method, args |-> args, returned |-> FALSE, result |-> None]

SinceInvocations ==
  {Invoke("get_activities_since", a) :
     a \in [logged_in : {TRUE}, list_ok : {TRUE}, account : BatchAccounts,
            days_back : DaysBack]
          \cup [logged_in : BOOLEAN, list_ok : BOOLEAN, account : {<<>>},
                days_back : {MaxDaysBack}]}

\* calculate_pace on every distance and duration of the grid, None included
Distances == {None} \cup {PyInt(500 * k) : k \in 0..MaxHalfKm}
Durations == {None} \cup {PyInt(250 * k) : k \in 0..MaxQuarterKs}
PaceInvocations ==
  {Invoke("calculate_pace", a) :
     a \in [distance_meters : Distances, duration_seconds : Durations]}

\* format_activity_data on summary records that carry or omit calories,
\* averageHR and maxHR (a key the service sends as null holds None), with a
\* duration or with a null one
Absent == [t |-> "absent"]
Optional(key, value) == IF value = Absent THEN <<>> ELSE key :> value
FormatSummaries ==
  {[Summary("running", 1) EXCEPT !.duration = d] @@ Optional("calories", c)
     @@ Optional("averageHR", a) @@ Optional("maxHR", m) :
     d \in {PyInt(1500), None},
     c \in {Absent, PyInt(0), PyInt(350)},
     a \in {Absent, None, PyInt(150)},
     m \in {Absent, PyInt(180)}}
FormatInvocations ==
  {Invoke("format_activity_data", a) :
     a \in [summary_activity : FormatSummaries, download : TrackDocs \cup {Raise}]}

ParseInvocations == {Invoke("parse_gpx_simple", [gpx_data |-> d]) : d \in GpxDocs}

Invocations ==
  SinceInvocations \cup ParseInvocations \cup PaceInvocations \cup FormatInvocations

InitCalls ==
  /\ remote = <<>>
  /\ credentials = [email |-> FALSE, password |-> FALSE]
  /\ invocation \in Invocations
  /\ InitRuns

Returns(result) ==
  /\ invocation' = [invocation EXCEPT !.returned = TRUE, !.result = result]
  /\ UNCHANGED <<remote, credentials, dbvars, pc, conn, tx, locals, outcome, warnings, calls>>

CallGetActivitiesSince ==
  /\ invocation.method = "get_activities_since" /\ ~invocation.returned
  /\ LET a == invocation.args
     IN Returns(get_activities_since(a.logged_in, a.account, a.list_ok, a.days_back))

CallParseGpxSimple ==
  /\ invocation.method = "parse_gpx_simple" /\ ~invocation.returned
  /\ Returns(parse_gpx_simple_call(invocation.args.gpx_data))

CallCalculatePace ==
  /\ invocation.method = "calculate_pace" /\ ~invocation.returned
  /\ LET a == invocation.args
     IN Returns(calculate_pace(a.distance_meters, a.duration_seconds))

CallFormatActivityData ==
  /\ invocation.method = "format_activity_data" /\ ~invocation.returned
  /\ LET a == invocation.args
     IN Returns(format_activity_data(a.summary_activity, a.download))

NextCalls ==
  \/ CallGetActivitiesSince
  \/ CallParseGpxSimple
  \/ CallCalculatePace
  \/ CallFormatActivityData

SpecCalls == InitCalls /\ [][NextCalls]_vars

\* ------------------------------------------------------- vocabulary
Has(p, name) == \E i \in 1..Len(calls[p]) : calls[p][i] = name
Ended(p) == pc[p] \in {"finally", "done"}
TargetId(p) == activity_data[p].activity_id
RowStored(activity_id) == \E i \in 1..Len(runs) : runs[i].activity_id = activity_id
RowsOf(activity_id) == {i \in 1..Len(runs) : runs[i].activity_id = activity_id}
SamplesOf(id) == SelectSeq(gps_tbl, LAMBDA row : row.run_id = id)
Writes == {"insert_run", "insert_gps_points"}

\* the terminal states of section 4.4, by the message main() ends with
Failed == {"no_credentials", "db_connect_failed", "login_failed", "sync_failed",
           "unhandled_exception"}
Skipped == {"no_activity", "already_exists"}
Success == {"completed"}

\* ------------------------------------------------------- C1
DedupStep(p) == pc[p] = "get_activity_by_id" /\ pc'[p] # "get_activity_by_id"
ReadSucceeded(p) == tx'[p] = "intrans"

FoundDuplicate(p) ==
  /\ Ended(p)
  /\ outcome[p] = "already_exists"
  /\ \A w \in Writes : ~Has(p, w)
  /\ run_id[p] = None
  /\ Cardinality(RowsOf(TargetId(p))) = 1

\* C1: a run whose dedup read executes while a row for its external_id is
\* already stored finds that row and ends as already-synced; a run that found
\* the row never calls insert_run or insert_gps_points and leaves exactly one
\* row for the external_id; and no step of a run whose external_id is already
\* stored changes the runs table or the gps_points table.
C1_Idempotent ==
  [][\A p \in Procs :
       /\ DedupStep(p) /\ RowStored(TargetId(p)) /\ ReadSucceeded(p)
            => existing_activity'[p] # None
       /\ existing_activity'[p] # None => FoundDuplicate(p)'
       /\ pc[p] \in {"get_activity_by_id", "insert_run"} /\ pc'[p] # pc[p]
            /\ RowStored(TargetId(p))
            => runs' = runs /\ gps_tbl' = gps_tbl /\ pc'[p] # "insert_gps_points"]_vars

C1_Witness ==
  \E p, q \in Procs :
    /\ p # q
    /\ pc[p] = "done" /\ pc[q] = "done"
    /\ outcome[q] = "completed" /\ run_id[q] # None
    /\ outcome[p] = "already_exists"
    /\ existing_activity[p] = [t |-> "row", id |-> run_id[q].v]
    /\ Len(runs) = 1
    /\ ~Has(p, "insert_run")

\* ------------------------------------------------------- C2
InsertReturned(p) == Has(p, "insert_run")

\* C2: the runs table never holds two rows with one external_id; of two runs
\* that both called insert_run for the same external_id at most one got an
\* identifier, and exactly one when both INSERT statements were executed;
\* every stored row is the row of a run whose insert_run returned its id (a
\* failed insert leaves no row).
C2_UniqueUnderConcurrency ==
  /\ \A i, j \in 1..Len(runs) : i # j => runs[i].activity_id # runs[j].activity_id
  /\ \A p, q \in Procs :
       p # q /\ InsertReturned(p) /\ InsertReturned(q) /\ TargetId(p) = TargetId(q)
         => /\ run_id[p] = None \/ run_id[q] = None
            /\ runs_id_seq = 2 => run_id[p] # None \/ run_id[q] # None
  /\ \A i \in 1..Len(runs) : \E p \in Procs : run_id[p] = PyInt(runs[i].id)

C2_Witness ==
  \E p, q \in Procs :
    /\ p # q
    /\ InsertReturned(p) /\ InsertReturned(q)
    /\ existing_activity[p] = None /\ existing_activity[q] = None
    /\ TargetId(p) = TargetId(q)
    /\ run_id[p] # None /\ run_id[q] = None
    /\ runs_id_seq = 2
    /\ Len(runs) = 1

\* ------------------------------------------------------- C3
InsertRunFailed(p) == Has(p, "insert_run") /\ run_id[p] = None
InsertGpsPointsFailed(p) ==
  Has(p, "insert_gps_points") /\ Len(SamplesOf(run_id[p])) # Len(gps_points[p])

\* C3: a run in which insert_run or insert_gps_points failed ends in a Failed
\* outcome and never reports successful completion.
C3_PersistenceErrorReportsFailed ==
  \A p \in Procs :
    pc[p] = "done" /\ (InsertRunFailed(p) \/ InsertGpsPointsFailed(p))
      => outcome[p] \in Failed

\* ------------------------------------------------------- C4
\* C4: in every run each insert_run / insert_gps_points call comes after a
\* get_activity_by_id call of the same run, and a run whose dedup read
\* returned a row makes no insert call and ends.
C4_DedupBeforeWrite ==
  \A p \in Procs :
    /\ \A i \in 1..Len(calls[p]) :
         calls[p][i] \in Writes
           => \E j \in 1..(i - 1) : calls[p][j] = "get_activity_by_id"
    /\ existing_activity[p] # None
         => Ended(p) /\ \A w \in Writes : ~Has(p, w)

C4_Witness ==
  \E p \in Procs :
    /\ calls[p] = <<"connect", "create_tables", "login", "get_activities", "get_activity",
                    "format_activity_data", "download_activity", "get_activity_by_id",
                    "insert_run", "insert_gps_points", "close">>
    /\ Len(SamplesOf(run_id[p])) = 2

\* ------------------------------------------------------- C5
Winners == {p \in Procs : run_id[p] # None}

\* C5: after insert_gps_points returned, either all of the run's samples are
\* stored or none of them is, and the activity row insert_run committed is
\* stored in both cases; a failed insert_run leaves no row (the stored rows
\* are exactly those of the runs whose insert_run returned an identifier).
C5_AtomicPhases ==
  /\ \A p \in Procs :
       Has(p, "insert_gps_points")
         => /\ Len(SamplesOf(run_id[p])) \in {0, Len(gps_points[p])}
            /\ \E i \in 1..Len(runs) : PyInt(runs[i].id) = run_id[p]
  /\ Len(runs) = Cardinality(Winners)

C5_Witness ==
  \E p \in Procs :
    /\ Has(p, "insert_gps_points")
    /\ Len(gps_points[p]) = 2
    /\ SamplesOf(run_id[p]) = <<>>
    /\ \E i \in 1..Len(runs) : PyInt(runs[i].id) = run_id[p]
    /\ \E q \in Procs : InsertRunFailed(q)

\* ------------------------------------------------------- C6
\* C6: every stored sample carries the id of a stored activity row, and a run
\* calls insert_gps_points only with the identifier its own insert_run
\* returned and a non-empty sample list.
C6_SamplesUnderParent ==
  /\ \A i \in 1..Len(gps_tbl) :
       /\ gps_tbl[i].run_id # None
       /\ \E j \in 1..Len(runs) : PyInt(runs[j].id) = gps_tbl[i].run_id
  /\ \A p \in Procs :
       pc[p] = "insert_gps_points" \/ Has(p, "insert_gps_points")
         => run_id[p] # None /\ gps_points[p] # <<>>

C6_Witness ==
  \E p \in Procs :
    /\ pc[p] = "done"
    /\ Len(gps_tbl) = 2
    /\ \A i \in 1..Len(gps_tbl) : gps_tbl[i].run_id = run_id[p]

\* ------------------------------------------------------- C7
\* the summary record get_latest_run selects carries no identifier
NormalizationFailed(p) ==
  LET selected == SelectSeq(activities[p], IsRunning)
  IN selected # <<>> /\ "activityId" \notin DOMAIN selected[1]

\* C7: a run whose selected summary record has no identifier ends Failed (not
\* Skipped) and writes nothing.
C7_NormalizationFailureFails ==
  \A p \in Procs :
    Ended(p) /\ NormalizationFailed(p)
      => /\ outcome[p] \in Failed
         /\ \A w \in Writes : ~Has(p, w)
         /\ run_id[p] = None

\* ------------------------------------------------------- C8
\* C8: a run whose login() failed ends at once as login_failed: it made no call
\* after login but close(), read nothing and wrote nothing.
C8_LoginFailureStops ==
  \A p \in Procs :
    Has(p, "login") /\ ~logged_in[p]
      => /\ Ended(p)
         /\ outcome[p] = "login_failed"
         /\ calls[p] \in {<<"connect", "create_tables", "login">>,
                          <<"connect", "create_tables", "login", "close">>}
         /\ activity_data[p] = None /\ existing_activity[p] = None /\ run_id[p] = None

C8_Witness ==
  \E p \in Procs :
    /\ pc[p] = "done"
    /\ outcome[p] = "login_failed"
    /\ ~logged_in[p]
    /\ calls[p] = <<"connect", "create_tables", "login", "close">>

\* ------------------------------------------------------- C9
TrackFetchFailed(p) == \E i \in 1..Len(warnings[p]) : warnings[p][i] = "gps_warning"
Samples(p) ==
  IF "gps_points" \in DOMAIN activity_data[p] THEN activity_data[p].gps_points
  ELSE gps_points[p]

\* C9: when the track download failed, the run still gets its activity (unless
\* formatting itself fails) with an empty sample list, goes on to the dedup
\* read and, when that finds nothing, to insert_run; it never calls
\* insert_gps_points and no sample is stored under its row.
C9_TrackFailureNonFatal ==
  \A p \in Procs :
    TrackFetchFailed(p)
      => /\ ~FormatRaises(SelectSeq(activities[p], IsRunning)[1]) => activity_data[p] # None
         /\ activity_data[p] # None
              => /\ Samples(p) = <<>>
                 /\ pc[p] # "get_latest_run" /\ outcome[p] # "no_activity"
                 /\ Ended(p) /\ existing_activity[p] = None => Has(p, "insert_run")
         /\ ~Has(p, "insert_gps_points")
         /\ SamplesOf(run_id[p]) = <<>>

C9_Witness ==
  \E p \in Procs :
    /\ TrackFetchFailed(p)
    /\ pc[p] = "done"
    /\ outcome[p] = "completed"
    /\ run_id[p] # None
    /\ \E i \in 1..Len(runs) :
         PyInt(runs[i].id) = run_id[p] /\ runs[i].activity_id = TargetId(p)
    /\ gps_tbl = <<>>

\* ------------------------------------------------------- C10
RunningAt(acts) == {i \in 1..Len(acts) : acts[i].activityType.typeKey = "running"}

\* C10: the activity a run works on is the first one of the listing, in source
\* order, whose type key is running; a run whose listing holds no running
\* activity ends as no_activity without a detail or track fetch and without
\* a read of or a write to the store.
C10_TargetIsFirstRunning ==
  \A p \in Procs :
    Has(p, "get_activities")
      => LET acts == activities[p]
         IN /\ RunningAt(acts) = {}
                 => /\ Ended(p) /\ outcome[p] = "no_activity"
                    /\ calls[p] \in {<<"connect", "create_tables", "login", "get_activities">>,
                                     <<"connect", "create_tables", "login", "get_activities",
                                       "close">>}
                    /\ run_id[p] = None
            /\ activity_data[p] # None
                 => \E i \in RunningAt(acts) :
                      /\ \A j \in RunningAt(acts) : i <= j
                      /\ "activityId" \in DOMAIN acts[i]
                      /\ TargetId(p) = ToString(acts[i].activityId.v)

C10_Witness ==
  \E p \in Procs :
    /\ Len(activities[p]) = 2
    /\ activities[p][1].activityType.typeKey = "cycling"
    /\ activity_data[p] # None
    /\ TargetId(p) = "2"
    /\ run_id[p] # None
\* ------------------------------------------------------- C11
CredentialsMissing == ~credentials.email \/ ~credentials.password

\* C11: when the e-mail or the password is not configured, no run ever opens
\* a connection or calls connect, create_tables, login or any other method of
\* the store or of the remote service; a run holds no result of such a call
\* and, once started, has ended with the credentials error; the store stays
\* as it was.
C11_CredentialsCheckedFirst ==
  CredentialsMissing
    => /\ \A p \in Procs :
            /\ calls[p] = <<>>
            /\ conn[p] = "none" /\ tx[p] = "idle"
            /\ ~logged_in[p] /\ activities[p] = <<>> /\ activity_data[p] = None
            /\ existing_activity[p] = None /\ run_id[p] = None
            /\ pc[p] \in {"start", "done"}
            /\ pc[p] = "done" <=> outcome[p] = "no_credentials"
       /\ ~tables /\ runs = <<>> /\ gps_tbl = <<>> /\ runs_id_seq = 0

C11_Witness ==
  /\ ~credentials.email /\ credentials.password
  /\ remote # <<>>
  /\ \A p \in Procs :
       /\ pc[p] = "done" /\ outcome[p] = "no_credentials"
       /\ calls[p] = <<>> /\ conn[p] = "none"

\* ------------------------------------------------------- C12
SinceReturned ==
  /\ invocation.method = "get_activities_since" /\ invocation.returned
  /\ invocation.args.logged_in /\ invocation.args.list_ok

\* the start of a listed activity, in days from now
HasStart(activity) ==
  "startTimeLocal" \in DOMAIN activity /\ activity.startTimeLocal.t = "isotime"
LaterThan(activity, day) == HasStart(activity) /\ activity.startTimeLocal.day > day

NothingWritten == ~tables /\ runs = <<>> /\ gps_tbl = <<>> /\ runs_id_seq = 0

\* C12: get_activities_since(days_back) returns, in the order of the listing
\* the service answered with, exactly the activities that carry a start time
\* later than now minus days_back days (of the activities 1, 10 and 40 days
\* old, a 7-day lookback returns the first only); it calls nothing but
\* get_activities and leaves the store as it was.
C12_BatchWindow ==
  SinceReturned
    => LET r == invocation.result
           days_back == invocation.args.days_back
       IN /\ r.result = SelectSeq(r.activities, LAMBDA a : LaterThan(a, 0 - days_back))
          /\ r.calls = <<"get_activities">>
          /\ NothingWritten
          /\ days_back = 7 /\ Len(r.activities) = 3
               /\ (\A i \in 1..3 : HasStart(r.activities[i]))
               /\ {r.activities[i].startTimeLocal.day : i \in 1..3} = {0 - 1, 0 - 10, 0 - 40}
               => /\ Len(r.result) = 1
                  /\ r.result[1].startTimeLocal.day = 0 - 1

C12_Witness ==
  /\ SinceReturned
  /\ invocation.args.days_back = 7
  /\ LET r == invocation.result
     IN /\ r.activities = <<Started("running", 3, 0 - 40, FALSE),
                            Started("running", 1, 0 - 1, FALSE),
                            Started("running", 2, 0 - 10, FALSE)>>
        /\ r.result = <<Started("running", 1, 0 - 1, FALSE)>>
\* ------------------------------------------------------- C13
Returned_at(r, activity) == \E i \in 1..Len(r.result) : r.result[i] = activity

\* C13, as claimed: every activity get_activities_since returns is of the
\* running type.
C13_BatchReturnsRunningOnly ==
  SinceReturned
    => \A i \in 1..Len(invocation.result.result) : IsRunning(invocation.result.result[i])

\* C13: get_activities_since applies no type filter: every listed activity,
\* of the running type or of another, that started inside the lookback
\* window is returned.
C13_BatchReturnsEveryType ==
  SinceReturned
    => LET r == invocation.result
       IN \A i \in 1..Len(r.activities) :
            LaterThan(r.activities[i], 0 - invocation.args.days_back)
              => Returned_at(r, r.activities[i])

C13_Witness ==
  /\ SinceReturned
  /\ invocation.args.days_back = 7
  /\ invocation.result.activities = <<Started("running", 1, 0 - 1, FALSE),
                                      Started("cycling", 5, 0 - 1, TRUE)>>
  /\ invocation.result.result = invocation.result.activities
\* ------------------------------------------------------- C14
ParseReturned == invocation.method = "parse_gpx_simple" /\ invocation.returned

\* the track points of a document that carry both coordinate attributes
HasBoth(trkpt) == "lat" \in DOMAIN trkpt /\ "lon" \in DOMAIN trkpt
Retained(gpx_data) == SelectSeq(gpx_data.trkpts, HasBoth)

\* C14: for a well-formed document parse_gpx_simple returns one sample per
\* track point that carries both lat and lon, in document order, with that
\* point's coordinates, and none for a point missing either.
C14_OneSamplePerCompletePoint ==
  ParseReturned /\ invocation.args.gpx_data.wellformed
    => LET kept == Retained(invocation.args.gpx_data)
           out == invocation.result.returns
       IN /\ Len(out) = Len(kept)
          /\ \A i \in 1..Len(kept) :
               i <= Len(out)
                 => out[i].latitude = kept[i].lat.v /\ out[i].longitude = kept[i].lon.v

\* ------------------------------------------------------- C15
\* C15: a retained track point whose elevation text is no number is emitted
\* with elevation absent, and so is every retained point before and after it.
C15_BadElevationOnlyBlanksField ==
  ParseReturned /\ invocation.args.gpx_data.wellformed
    => LET kept == Retained(invocation.args.gpx_data)
           out == invocation.result.returns
       IN \A i \in 1..Len(kept) :
            Get(kept[i], "ele", None) = BadText
              => /\ Len(out) = Len(kept)
                 /\ out[i].latitude = kept[i].lat.v
                 /\ out[i].elevation_meters = None
\* ------------------------------------------------------- C16
FormatReturned == invocation.method = "format_activity_data" /\ invocation.returned

\* C16: each of calories, avg_heart_rate and max_heart_rate of the formatted
\* activity is the value of the summary record when the record has one and
\* None when the record omits the key.
C16_OptionalFieldsStayAbsent ==
  FormatReturned /\ invocation.result # None
    => LET summary_activity == invocation.args.summary_activity
           data == invocation.result
       IN /\ data.calories = Get(summary_activity, "calories", None)
          /\ data.avg_heart_rate = Get(summary_activity, "averageHR", None)
          /\ data.max_heart_rate = Get(summary_activity, "maxHR", None)

\* ------------------------------------------------------- C17
PaceReturned == invocation.method = "calculate_pace" /\ invocation.returned
Known(x) == x # None /\ x # PyInt(0)

\* C17: with distance > 0 and a known non-zero duration, calculate_pace
\* returns duration / (distance / 1000) to 2 decimals: the hundredths nearest
\* to the quotient, the quotient itself when it has at most 2 decimals (5000 m
\* in 1500 s give 300.00); with distance or duration 0 or None it returns
\* None, not a number.
C17_PaceDerivation ==
  PaceReturned
    => LET d == invocation.args.distance_meters
           t == invocation.args.duration_seconds
           pace == invocation.result
       IN /\ Known(d) /\ Known(t)
               => /\ pace # None
                  /\ 2 * (pace.hundredths * d.v - t.v * 100000) <= d.v
                  /\ 2 * (t.v * 100000 - pace.hundredths * d.v) <= d.v
                  /\ (t.v * 100000) % d.v = 0 => pace.hundredths * d.v = t.v * 100000
          /\ ~(Known(d) /\ Known(t)) => pace = None
          /\ d = PyInt(5000) /\ t = PyInt(1500) => pace = [t |-> "float", hundredths |-> 30000]

C17_Witness ==
  /\ PaceReturned
  /\ invocation.args = [distance_meters |-> PyInt(1500), duration_seconds |-> PyInt(250)]
  /\ invocation.result = [t |-> "float", hundredths |-> 16667]
\* ------------------------------------------------------- C18
Malformed(gpx_data) == "wellformed" \in DOMAIN gpx_data /\ ~gpx_data.wellformed

\* C18: on a document whose markup cannot be parsed parse_gpx_simple returns
\* the empty list, raises nothing to its caller and logs a warning; and
\* format_activity_data, handed such a document by the download, still
\* returns the activity (unless the summary record itself makes it fail), with
\* an empty sample list.
C18_MalformedTrackYieldsNoSamples ==
  /\ ParseReturned /\ Malformed(invocation.args.gpx_data)
       => /\ invocation.result.returns = <<>>
          /\ ~invocation.result.raises
          /\ invocation.result.warnings = <<"gpx_parse_warning">>
  /\ FormatReturned /\ Malformed(invocation.args.download)
       /\ ~FormatRaises(invocation.args.summary_activity)
       => /\ invocation.result # None
          /\ invocation.result.gps_points = <<>>
          /\ invocation.result.activity_id = "1"

C18_Witness ==
  /\ ParseReturned
  /\ invocation.args.gpx_data = [wellformed |-> FALSE, trkpts |-> <<>>]
  /\ invocation.result.returns = <<>>
  /\ ~invocation.result.raises
\* ------------------------------------------------------- C19
\* the steps of section 5, by the calls that make them up
StepOf(name) ==
  CASE name = "login" -> "authenticate"
    [] name = "get_activities" -> "list"
    [] name \in {"get_activity", "download_activity"} -> "fetch"
    [] name = "format_activity_data" -> "normalize"
    [] name = "get_activity_by_id" -> "dedup"
    [] name \in {"insert_run", "insert_gps_points"} -> "persist"
    [] OTHER -> "other"
StepOrder == <<"authenticate", "list", "fetch", "normalize", "dedup", "persist">>
StepRank(step) == CHOOSE k \in 1..Len(StepOrder) : StepOrder[k] = step
StepCalls(p) == SelectSeq(calls[p], LAMBDA name : StepOf(name) # "other")

CallOrder ==
  <<"connect", "create_tables", "login", "get_activities", "get_activity",
    "format_activity_data", "download_activity", "get_activity_by_id", "insert_run",
    "insert_gps_points", "close">>
CallRanks ==
  [name \in {CallOrder[k] : k \in 1..Len(CallOrder)} |->
     CHOOSE k \in 1..Len(CallOrder) : CallOrder[k] = name]
CallRank(name) == CallRanks[name]

ReadFailed(p) == DedupStep(p) /\ ~ReadSucceeded(p)
InsertStep(p) == pc[p] = "insert_run" /\ pc'[p] # "insert_run"

\* C20: a dedup read that errors answers None, as for no row, and the run
\* goes on to insert_run; an insert_run for an external_id that is already
\* stored (the dedup read having failed, or having run before the row was
\* committed) returns no identifier, leaves the runs table with exactly one
\* row for that external_id, stores no sample and is not followed by
\* insert_gps_points.
C20_DedupFailsOpenWithoutDuplicate ==
  [][\A p \in Procs :
       /\ ReadFailed(p)
            => existing_activity'[p] = None /\ pc'[p] = "insert_run"
       /\ InsertStep(p) /\ RowStored(TargetId(p))
            => /\ run_id'[p] = None
               /\ Cardinality({i \in 1..Len(runs') : runs'[i].activity_id = TargetId(p)}) = 1
               /\ gps_tbl' = gps_tbl
               /\ pc'[p] = "finally"]_vars

\* a run whose read failed on the server while the row of a finished run is
\* stored, about to call insert_run
C20_Witness ==
  \E p, q \in Procs :
    /\ p # q
    /\ pc[q] = "done" /\ run_id[q] # None
    /\ pc[p] = "insert_run" /\ tx[p] = "inerror"
    /\ existing_activity[p] = None
    /\ TargetId(p) = TargetId(q)
    /\ RowStored(TargetId(p)) /\ Len(runs) = 1
\* ------------------------------------------------------- C21
ConnectSucceeded(p) == Has(p, "connect") /\ outcome[p] # "db_connect_failed"
StoreCalls ==
  {"connect", "create_tables", "get_activity_by_id", "insert_run", "insert_gps_points",
   "close"}
CloseCalls(p) == {i \in 1..Len(calls[p]) : calls[p][i] = "close"}

\* C21: a run in which connect() succeeded and that has ended, whatever its
\* outcome, has called close() exactly once, after every other call to the
\* store, and holds no open connection; no run makes a store call after its
\* close().
C21_ConnectionAlwaysReleased ==
  \A p \in Procs :
    /\ pc[p] = "done" /\ ConnectSucceeded(p)
         => /\ Cardinality(CloseCalls(p)) = 1
            /\ calls[p][Len(calls[p])] = "close"
            /\ conn[p] = "closed"
    /\ \A i \in CloseCalls(p) :
         \A j \in (i + 1)..Len(calls[p]) : calls[p][j] \notin StoreCalls
====
